---- MODULE Spec2Model ----
(***************************************************************************)
(* Model of the MindMap component (components/MindMap.tsx): the tree       *)
(* layout engine (estimateNodeHeight, calculateTreeMetrics, layoutTree)    *)
(* and the viewport controller (tween, pan, wheel, fit, focus, search).    *)
(***************************************************************************)
EXTENDS Integers, Sequences, FiniteSets, TLC

(***************************************************************************)
(* Program constants.                                                      *)
(***************************************************************************)
NODE_WIDTH == 240
NODE_HEIGHT_BASE == 80
HORIZONTAL_SPACING == 100
VERTICAL_SPACING == 20

BRANCH_COLORS ==
  << "#3b82f6", "#10b981", "#8b5cf6", "#f59e0b",
     "#ec4899", "#06b6d4", "#ef4444", "#6366f1" >>

\* index is 0-based in the source, sequences are 1-based here
getBranchColor(index) == BRANCH_COLORS[(index % Len(BRANCH_COLORS)) + 1]

charsPerLineTopic == 25
charsPerLineContent == 35

\* Math.ceil(a / b) for naturals a and b > 0
Ceil(a, b) == (a + b - 1) \div b

Max2(a, b) == IF a >= b THEN a ELSE b

(***************************************************************************)
(* Bounds of the model and the input trees.                                *)
(***************************************************************************)
MaxNodes == 5

\* a text of n copies of the character c
Rep(c, n) == [i \in 1..n |-> c]

\* the (topic, content) pairs the layout inputs are drawn from: a short
\* node (base height) and a node with a two-line topic and some content
LayoutTexts ==
  { [topic |-> <<"M", "a", "p">>, content |-> <<>>],
    [topic |-> Rep("t", 26),      content |-> <<"c">>] }

\* Trees with exactly n nodes rooted at the node whose id is `path`;
\* ids are the paths from the root, so they are unique across the tree.
RECURSIVE TreesExact(_, _, _), ForestExact(_, _, _, _)
TreesExact(path, n, texts) ==
  { [id |-> path, topic |-> t.topic, content |-> t.content, children |-> f] :
      t \in texts, f \in ForestExact(path, 1, n - 1, texts) }

ForestExact(path, i, m, texts) ==
  IF m = 0 THEN { <<>> }
  ELSE UNION { { <<t>> \o rest :
                   t \in TreesExact(Append(path, i), k, texts),
                   rest \in ForestExact(path, i + 1, m - k, texts) } :
               k \in 1..m }

LayoutTrees == UNION { TreesExact(<<>>, n, LayoutTexts) : n \in 1..MaxNodes }

\* a root with one child more than there are branch colours, the last of
\* them with a child of its own
WideFanout == Len(BRANCH_COLORS) + 1

WideTrees ==
  LET Leaf(path) == [id |-> path, topic |-> <<"M", "a", "p">>,
                     content |-> <<>>, children |-> <<>>]
  IN { [Leaf(<<>>) EXCEPT !.children =
          [i \in 1..WideFanout |->
             IF i = WideFanout
               THEN [Leaf(<<i>>) EXCEPT !.children = << Leaf(<<i, 1>>) >>]
               ELSE Leaf(<<i>>)]] }

(***************************************************************************)
(* Size estimator.                                                         *)
(***************************************************************************)
\* mutant: the collapsed flag is not consulted
estimateNodeHeight_IgnoreCollapsed(node, isCollapsed) ==
  LET c0 == Ceil(Len(node.topic), charsPerLineTopic)
      topicLines == IF c0 = 0 THEN 1 ELSE c0
      contentLines == IF Len(node.content) = 0 THEN 0
                      ELSE Ceil(Len(node.content), charsPerLineContent)
      height0 == 50 + (topicLines * 20)
      height == IF contentLines > 0
                  THEN height0 + (contentLines * 16) + 10
                  ELSE height0
  IN Max2(NODE_HEIGHT_BASE, height)

estimateNodeHeight(node, isCollapsed) ==
  IF isCollapsed THEN NODE_HEIGHT_BASE
  ELSE
    LET c0 == Ceil(Len(node.topic), charsPerLineTopic)
        topicLines == IF c0 = 0 THEN 1 ELSE c0
        contentLines == IF Len(node.content) = 0 THEN 0
                        ELSE Ceil(Len(node.content), charsPerLineContent)
        height0 == 50 + (topicLines * 20)
        height == IF contentLines > 0
                    THEN height0 + (contentLines * 16) + 10
                    ELSE height0
    IN Max2(NODE_HEIGHT_BASE, height)

(***************************************************************************)
(* Subtree metrics.                                                        *)
(***************************************************************************)
RECURSIVE calculateTreeMetrics(_, _)
RECURSIVE SumChildrenMetrics(_, _, _)

\* the forEach loop of calculateTreeMetrics / layoutTree: the sum over the
\* children from index i on of their metrics, with a gap after every child
\* but the last
\* mutant: no gap is counted between the children
SumChildrenMetrics_NoGap(children, i, collapsedIds) ==
  IF i > Len(children) THEN 0
  ELSE calculateTreeMetrics(children[i], collapsedIds)
       + SumChildrenMetrics(children, i + 1, collapsedIds)

SumChildrenMetrics(children, i, collapsedIds) ==
  IF i > Len(children) THEN 0
  ELSE calculateTreeMetrics(children[i], collapsedIds)
       + (IF i < Len(children) THEN VERTICAL_SPACING ELSE 0)
       + SumChildrenMetrics(children, i + 1, collapsedIds)

\* mutant: the children are not summed, a subtree reserves its root's height
calculateTreeMetrics_OwnHeight(node, collapsedIds) ==
  estimateNodeHeight(node, node.id \in collapsedIds)

\* mutant: the gap is added after the last child too
calculateTreeMetrics_TrailingGap(node, collapsedIds) ==
  LET isCollapsed == node.id \in collapsedIds
      nodeHeight == estimateNodeHeight(node, isCollapsed)
  IN IF isCollapsed \/ Len(node.children) = 0
       THEN nodeHeight
       ELSE Max2(nodeHeight,
                 SumChildrenMetrics(node.children, 1, collapsedIds)
                   + VERTICAL_SPACING)

calculateTreeMetrics(node, collapsedIds) ==
  LET isCollapsed == node.id \in collapsedIds
      nodeHeight == estimateNodeHeight(node, isCollapsed)
  IN IF isCollapsed \/ Len(node.children) = 0
       THEN nodeHeight
       ELSE Max2(nodeHeight, SumChildrenMetrics(node.children, 1, collapsedIds))

(***************************************************************************)
(* Layout engine.  A positioned node carries the fields of                 *)
(* ExtendedNodePosition plus the ghost field spanTop, the y argument the   *)
(* node was laid out with (the top of its reserved span).                  *)
(***************************************************************************)
NoColor == "undefined"

\* (a - b) / 2 as the source computes it; every height of the model is an
\* even number, so the quotient is exact (checked by HeightsEven)
Half(a) == a \div 2

RECURSIVE layoutTree(_, _, _, _, _, _)
RECURSIVE LayoutChildren(_, _, _, _, _, _, _)

\* the forEach loop of layoutTree that positions the children from index i
\* on, currentChildY being the span top of child i
\* mutant: the next child starts right below the previous span, without gap
RECURSIVE LayoutChildren_NoGap(_, _, _, _, _, _, _)
LayoutChildren_NoGap(node, i, x, currentChildY, depth, rootChildIndex, collapsedIds) ==
  IF i > Len(node.children) THEN <<>>
  ELSE
    LET child == node.children[i]
        childMetrics == calculateTreeMetrics(child, collapsedIds)
        nextRootChildIndex == IF depth = 0 THEN i - 1 ELSE rootChildIndex
        childNode == layoutTree(child, x + NODE_WIDTH + HORIZONTAL_SPACING,
                                currentChildY, depth + 1, nextRootChildIndex,
                                collapsedIds)
    IN <<childNode>> \o
       LayoutChildren_NoGap(node, i + 1, x, currentChildY + childMetrics,
                            depth, rootChildIndex, collapsedIds)

\* mutant: below the root's children too, a child takes its own sibling
\* index as the branch index
RECURSIVE LayoutChildren_OwnIndex(_, _, _, _, _, _, _)
LayoutChildren_OwnIndex(node, i, x, currentChildY, depth, rootChildIndex, collapsedIds) ==
  IF i > Len(node.children) THEN <<>>
  ELSE
    LET child == node.children[i]
        childMetrics == calculateTreeMetrics(child, collapsedIds)
        nextRootChildIndex == i - 1
        childNode == layoutTree(child, x + NODE_WIDTH + HORIZONTAL_SPACING,
                                currentChildY, depth + 1, nextRootChildIndex,
                                collapsedIds)
    IN <<childNode>> \o
       LayoutChildren_OwnIndex(node, i + 1, x,
                               currentChildY + childMetrics + VERTICAL_SPACING,
                               depth, rootChildIndex, collapsedIds)

LayoutChildren(node, i, x, currentChildY, depth, rootChildIndex, collapsedIds) ==
  IF i > Len(node.children) THEN <<>>
  ELSE
    LET child == node.children[i]
        childMetrics == calculateTreeMetrics(child, collapsedIds)
        nextRootChildIndex == IF depth = 0 THEN i - 1 ELSE rootChildIndex
        childNode == layoutTree(child, x + NODE_WIDTH + HORIZONTAL_SPACING,
                                currentChildY, depth + 1, nextRootChildIndex,
                                collapsedIds)
    IN <<childNode>> \o
       LayoutChildren(node, i + 1, x,
                      currentChildY + childMetrics + VERTICAL_SPACING,
                      depth, rootChildIndex, collapsedIds)

\* mutant: the unit height is the children's total whenever there are
\* children, the node's own height is not taken into the maximum
layoutTree_NoMax(node, x, y, depth, rootChildIndex, collapsedIds) ==
  LET color == IF depth >= 1 THEN getBranchColor(rootChildIndex) ELSE NoColor
      isCollapsed == node.id \in collapsedIds
      nodeHeight == estimateNodeHeight(node, isCollapsed)
      childrenTotalHeight ==
        IF ~isCollapsed /\ Len(node.children) > 0
          THEN SumChildrenMetrics(node.children, 1, collapsedIds)
          ELSE 0
      totalUnitHeight == IF childrenTotalHeight > 0 THEN childrenTotalHeight
                         ELSE nodeHeight
      nodeY == y + Half(totalUnitHeight - nodeHeight)
      positionedChildren ==
        IF ~isCollapsed /\ Len(node.children) > 0
          THEN LayoutChildren(node, 1, x,
                              y + Half(totalUnitHeight - childrenTotalHeight),
                              depth, rootChildIndex, collapsedIds)
          ELSE <<>>
  IN [ id |-> node.id, topic |-> node.topic, content |-> node.content,
       x |-> x, y |-> nodeY, height |-> nodeHeight,
       children |-> positionedChildren, color |-> color, depth |-> depth,
       treeHeight |-> totalUnitHeight, isCollapsed |-> isCollapsed,
       hasHiddenChildren |-> Len(node.children) > 0,
       hiddenChildrenCount |-> Len(node.children),
       spanTop |-> y ]

layoutTree(node, x, y, depth, rootChildIndex, collapsedIds) ==
  LET color == IF depth >= 1 THEN getBranchColor(rootChildIndex) ELSE NoColor
      isCollapsed == node.id \in collapsedIds
      nodeHeight == estimateNodeHeight(node, isCollapsed)
      childrenTotalHeight ==
        IF ~isCollapsed /\ Len(node.children) > 0
          THEN SumChildrenMetrics(node.children, 1, collapsedIds)
          ELSE 0
      totalUnitHeight == Max2(nodeHeight, childrenTotalHeight)
      nodeY == y + Half(totalUnitHeight - nodeHeight)
      positionedChildren ==
        IF ~isCollapsed /\ Len(node.children) > 0
          THEN LayoutChildren(node, 1, x,
                              y + Half(totalUnitHeight - childrenTotalHeight),
                              depth, rootChildIndex, collapsedIds)
          ELSE <<>>
  IN [ id |-> node.id, topic |-> node.topic, content |-> node.content,
       x |-> x, y |-> nodeY, height |-> nodeHeight,
       children |-> positionedChildren, color |-> color, depth |-> depth,
       treeHeight |-> totalUnitHeight, isCollapsed |-> isCollapsed,
       hasHiddenChildren |-> Len(node.children) > 0,
       hiddenChildrenCount |-> Len(node.children),
       spanTop |-> y ]

\* the useMemo that recomputes the positioned tree
PositionedData(tree, collapsedIds) == layoutTree(tree, 0, 0, 0, 0, collapsedIds)

RECURSIVE flattenNodes(_)
RECURSIVE FlattenForest(_, _)
FlattenForest(children, i) ==
  IF i > Len(children) THEN <<>>
  ELSE flattenNodes(children[i]) \o FlattenForest(children, i + 1)

flattenNodes(node) == <<node>> \o FlattenForest(node.children, 1)

\* mutant: the id is added, never deleted
ToggledSet_AddOnly(prev, id) == prev \cup {id}

\* the collapsed set after toggleNodeCollapse(id)
ToggledSet(prev, id) ==
  IF id \in prev THEN prev \ {id} ELSE prev \cup {id}

Range(s) == { s[i] : i \in 1..Len(s) }

(***************************************************************************)
(* Numbers of the viewport.  The camera arithmetic is IEEE-754 double      *)
(* arithmetic in the source; here a number is an exact rational n/d in     *)
(* lowest terms (k = "fin"), an infinity (k = "inf", n its sign) or NaN    *)
(* (k = "nan").  Zero carries no sign.                                     *)
(***************************************************************************)
Abs(a) == IF a < 0 THEN -a ELSE a
Sign(a) == IF a < 0 THEN -1 ELSE IF a > 0 THEN 1 ELSE 0

RECURSIVE GCD(_, _)
GCD(a, b) == IF b = 0 THEN a ELSE GCD(b, a % b)
LCM(a, b) == (a \div GCD(a, b)) * b

NaN == [k |-> "nan", n |-> 0, d |-> 1]
Inf(s) == [k |-> "inf", n |-> s, d |-> 1]

\* the rational n/d, d # 0, in lowest terms with a positive denominator
Rat(n, d) ==
  LET g == GCD(Abs(n), Abs(d))
  IN [k |-> "fin", n |-> (Sign(d) * n) \div g, d |-> Abs(d) \div g]

Fin(n) == Rat(n, 1)

IsFinite(a) == a.k = "fin"
IsZero(a) == a.k = "fin" /\ a.n = 0
\* the sign of a number that is not NaN
SignOf(a) == Sign(a.n)

RNeg(a) == IF a.k = "nan" THEN NaN ELSE [a EXCEPT !.n = -a.n]

RAdd(a, b) ==
  IF a.k = "nan" \/ b.k = "nan" THEN NaN
  ELSE IF a.k = "inf" /\ b.k = "inf" THEN (IF a.n = b.n THEN a ELSE NaN)
  ELSE IF a.k = "inf" THEN a
  ELSE IF b.k = "inf" THEN b
  ELSE LET l == LCM(a.d, b.d)
       IN Rat(a.n * (l \div a.d) + b.n * (l \div b.d), l)

RSub(a, b) == RAdd(a, RNeg(b))

RMul(a, b) ==
  IF a.k = "nan" \/ b.k = "nan" THEN NaN
  ELSE IF a.k = "inf" \/ b.k = "inf"
    THEN (IF IsZero(a) \/ IsZero(b) THEN NaN ELSE Inf(SignOf(a) * SignOf(b)))
  ELSE LET g1 == GCD(Abs(a.n), b.d)
           g2 == GCD(Abs(b.n), a.d)
       IN Rat((a.n \div g1) * (b.n \div g2), (a.d \div g2) * (b.d \div g1))

RDiv(a, b) ==
  IF a.k = "nan" \/ b.k = "nan" THEN NaN
  ELSE IF a.k = "inf"
    THEN (IF b.k = "inf" THEN NaN
          ELSE Inf(a.n * (IF IsZero(b) THEN 1 ELSE SignOf(b))))
  ELSE IF b.k = "inf" THEN Fin(0)
  ELSE IF IsZero(b) THEN (IF IsZero(a) THEN NaN ELSE Inf(SignOf(a)))
  ELSE LET g1 == GCD(Abs(a.n), Abs(b.n))
           g2 == GCD(b.d, a.d)
       IN Rat((a.n \div g1) * (b.d \div g2), (a.d \div g2) * (b.n \div g1))

\* a < b; false when either is NaN
RLt(a, b) ==
  IF a.k = "nan" \/ b.k = "nan" THEN FALSE
  ELSE IF a.k = "inf" THEN a.n = -1 /\ ~(b.k = "inf" /\ b.n = -1)
  ELSE IF b.k = "inf" THEN b.n = 1
  ELSE LET l == LCM(a.d, b.d)
       IN a.n * (l \div a.d) < b.n * (l \div b.d)

\* Math.max / Math.min of two numbers: NaN if either is NaN
RMax(a, b) ==
  IF a.k = "nan" \/ b.k = "nan" THEN NaN ELSE IF RLt(a, b) THEN b ELSE a

RMin(a, b) ==
  IF a.k = "nan" \/ b.k = "nan" THEN NaN ELSE IF RLt(b, a) THEN b ELSE a

\* Math.min(...xs) and Math.max(...xs) over a non-empty set of integers
MinOf(S) == CHOOSE m \in S : \A e \in S : m <= e
MaxOf(S) == CHOOSE m \in S : \A e \in S : m >= e

(***************************************************************************)
(* Strings: a string is a sequence of one-character strings.               *)
(***************************************************************************)
LowerOf(c) ==
  CASE c = "M" -> "m"
    [] c = "A" -> "a"
    [] c = "P" -> "p"
    [] c = "T" -> "t"
    [] c = "C" -> "c"
    [] OTHER   -> c

toLowerCase(str) == [i \in 1..Len(str) |-> LowerOf(str[i])]

RECURSIVE trimStart(_), trimEnd(_)
trimStart(str) ==
  IF Len(str) > 0 /\ str[1] = " " THEN trimStart(Tail(str)) ELSE str
trimEnd(str) ==
  IF Len(str) > 0 /\ str[Len(str)] = " "
    THEN trimEnd(SubSeq(str, 1, Len(str) - 1)) ELSE str
trim(str) == trimEnd(trimStart(str))

\* String.prototype.includes
includes(str, sub) ==
  \E i \in 1..(Len(str) - Len(sub) + 1) :
     SubSeq(str, i, i + Len(sub) - 1) = sub

(***************************************************************************)
(* Inputs of the viewport model.                                           *)
(***************************************************************************)
MaxEvents == 3

duration == 600
\* the time between two animation frames the model distinguishes: half the
\* tween's duration, so that a tween takes one or two frames
FrameStep == duration \div 2

\* a short node and a node whose content wraps over two lines
ViewTexts ==
  { [topic |-> <<"M", "a", "p">>, content |-> <<>>],
    [topic |-> <<"T", "o", "p">>, content |-> Rep("c", 36)] }

\* the trees of the viewport model: a root with two leaf children, the
\* first short, the second short or tall
ViewTrees ==
  { t \in TreesExact(<<>>, 3, ViewTexts) :
      /\ Len(t.children) = 2
      /\ t.topic = <<"M", "a", "p">>
      /\ t.children[1].topic = <<"M", "a", "p">> }

\* container pixel sizes <<clientWidth, clientHeight>>
ContainerSizes == { <<1000, 800>>, <<0, 0>> }

Queries == { <<>>, <<"m", "A">>, <<"z">> }

\* wheel events: ctrl+wheel up, plain vertical wheel, horizontal scroll,
\* diagonal scroll, shift+vertical wheel
WheelEvents ==
  { [ctrlKey |-> TRUE,  shiftKey |-> FALSE, deltaX |-> 0,  deltaY |-> -100,
     clientX |-> 500, clientY |-> 400],
    [ctrlKey |-> FALSE, shiftKey |-> FALSE, deltaX |-> 0,  deltaY |-> 100,
     clientX |-> 250, clientY |-> 0],
    [ctrlKey |-> FALSE, shiftKey |-> FALSE, deltaX |-> 30, deltaY |-> 0,
     clientX |-> 500, clientY |-> 400],
    [ctrlKey |-> FALSE, shiftKey |-> FALSE, deltaX |-> 10, deltaY |-> 40,
     clientX |-> 500, clientY |-> 400],
    [ctrlKey |-> FALSE, shiftKey |-> TRUE,  deltaX |-> 0,  deltaY |-> 100,
     clientX |-> 500, clientY |-> 400] }

\* pointer positions <<clientX, clientY>> of mouse-down and mouse-move events
DownPoints == { <<500, 400>> }
MousePoints == { <<500, 400>>, <<520, 430>> }
Buttons == { 0, 1, 2 }

\* the factors of the two zoom buttons, 0.6 and 1.4
ZoomFactors == { Rat(3, 5), Rat(7, 5) }

(***************************************************************************)
(* State.                                                                  *)
(***************************************************************************)
VARIABLES
  parsedData,        \* history: the result of JSON.parse, before normalization
  data,              \* the tree (prop)
  searchQuery,       \* the query (prop)
  containerSize,     \* <<width, height>> of containerRef.current
  collapsedNodeIds,  \* useState
  selectedNodeId,    \* useState; NoSelection for null
  viewBox,           \* useState: the latest state, every queued update applied
  viewBoxRendered,   \* the viewBox the handlers of the last render close over
  viewBoxRef,        \* useRef, set by the effect that follows a render
  positionedData,    \* useMemo
  isPanning,         \* useRef
  startPoint,        \* useRef
  animationRef,      \* useRef; 0 for null
  rafQueue,          \* the animation-frame callbacks that are pending
  nextHandle,        \* the handle the next requestAnimationFrame returns
  now,               \* performance.now()
  fitTimerPending,   \* the setTimeout(fitToScreen, 100) of the mount
  tweenSeq,          \* history: the number of tweenViewBox calls so far
  cancelled,         \* history: <<tween, by>> for every tween cancelled in flight
  trail,             \* history: the last two collapse toggles
  lastOp,            \* history: the last handler that ran
  events             \* the number of events handled so far

vars == << parsedData, data, searchQuery, containerSize, collapsedNodeIds, selectedNodeId,
           viewBox, viewBoxRendered, viewBoxRef, positionedData, isPanning,
           startPoint, animationRef, rafQueue, nextHandle, now,
           fitTimerPending, tweenSeq, cancelled, trail, lastOp, events >>

\* null; no id is this path, child indexes start at 1
NoSelection == << 0 >>

allNodes == flattenNodes(positionedData)

Box(x, y, width, height) == [x |-> x, y |-> y, width |-> width, height |-> height]

(***************************************************************************)
(* Animation frames and the tween.                                         *)
(***************************************************************************)
tweenVars == << animationRef, rafQueue, nextHandle, tweenSeq, cancelled >>

\* the pending callbacks after cancelAnimationFrame(handle)
cancelAnimationFrame(queue, handle) == { cb \in queue : cb.handle # handle }

\* mutant: the stored handle is not cancelled before the next is scheduled
tweenViewBox_NoCancel(target, start) ==
  LET animate == [handle |-> nextHandle, tween |-> tweenSeq + 1,
                  start |-> start, target |-> target, startTime |-> now]
  IN /\ rafQueue' = rafQueue \cup {animate}
     /\ animationRef' = nextHandle
     /\ nextHandle' = nextHandle + 1
     /\ tweenSeq' = tweenSeq + 1
     /\ UNCHANGED cancelled

\* tweenViewBox(target), called when viewBoxRef.current is `start`
tweenViewBox(target, start) ==
  LET kept == IF animationRef # 0
                THEN cancelAnimationFrame(rafQueue, animationRef)
                ELSE rafQueue
      animate == [handle |-> nextHandle, tween |-> tweenSeq + 1,
                  start |-> start, target |-> target, startTime |-> now]
  IN /\ rafQueue' = kept \cup {animate}
     /\ animationRef' = nextHandle
     /\ nextHandle' = nextHandle + 1
     /\ tweenSeq' = tweenSeq + 1
     /\ cancelled' = cancelled \cup { <<cb.tween, "tween">> : cb \in rafQueue \ kept }

\* 1 - Math.pow(1 - t, 3)
easeOut(t) ==
  LET u == RSub(Fin(1), t) IN RSub(Fin(1), RMul(u, RMul(u, u)))

\* start + (target - start) * ease
Lerp(a, b, ease) == RAdd(a, RMul(RSub(b, a), ease))

\* the frame callback `animate` of the tween cb, run at time currentTime
animate(cb, currentTime) ==
  LET elapsed == currentTime - cb.startTime
      progress == RMin(RDiv(Fin(elapsed), Fin(duration)), Fin(1))
      ease == easeOut(progress)
      next == Box(Lerp(cb.start.x, cb.target.x, ease),
                  Lerp(cb.start.y, cb.target.y, ease),
                  Lerp(cb.start.width, cb.target.width, ease),
                  Lerp(cb.start.height, cb.target.height, ease))
  IN /\ viewBox' = next
     /\ IF RLt(progress, Fin(1))
          THEN /\ animationRef' = nextHandle
               /\ rafQueue' = (rafQueue \ {cb})
                                \cup {[cb EXCEPT !.handle = nextHandle]}
               /\ nextHandle' = nextHandle + 1
          ELSE /\ animationRef' = 0
               /\ rafQueue' = rafQueue \ {cb}
               /\ nextHandle' = nextHandle

\* the browser runs a pending frame callback, dt ms after the last frame
AnimationFrame(cb, dt) ==
  /\ cb \in rafQueue
  /\ now' = now + dt
  /\ animate(cb, now')
  /\ UNCHANGED << parsedData, data, searchQuery, containerSize, collapsedNodeIds,
                  selectedNodeId, viewBoxRendered, viewBoxRef, positionedData,
                  isPanning, startPoint, fitTimerPending, tweenSeq,
                  cancelled, trail >>

(***************************************************************************)
(* Fit, focus, search framing, zoom buttons.                               *)
(***************************************************************************)
\* the body of fitToScreen over the node list `nodes` of its closure
fitToScreen(nodes) ==
  IF Len(nodes) = 0 THEN UNCHANGED tweenVars
  ELSE
    LET containerWidth == Fin(containerSize[1])
        containerHeight == Fin(containerSize[2])
        xs == { nodes[i].x : i \in 1..Len(nodes) }
        ys == { nodes[i].y : i \in 1..Len(nodes) }
        paddingX == 100
        paddingY == 100
        minX == MinOf(xs) - paddingX
        maxX == MaxOf(xs) + NODE_WIDTH + paddingX
        minY == MinOf(ys) - paddingY
        maxY == MaxOf(ys) + NODE_HEIGHT_BASE + paddingY
        contentWidth == Fin(maxX - minX)
        contentHeight == Fin(maxY - minY)
        scaleX == RDiv(contentWidth, containerWidth)
        scaleY == RDiv(contentHeight, containerHeight)
        scale == RMax(RMax(scaleX, scaleY), Rat(3, 5))
        target ==
          Box(RAdd(Fin(minX),
                   RDiv(RSub(contentWidth, RMul(containerWidth, scale)), Fin(2))),
              RAdd(Fin(minY),
                   RDiv(RSub(contentHeight, RMul(containerHeight, scale)), Fin(2))),
              RMul(containerWidth, scale),
              RMul(containerHeight, scale))
    IN tweenViewBox(target, viewBoxRef)

\* the "Fit to Screen" button
FitButton ==
  /\ fitToScreen(allNodes)
  /\ UNCHANGED << parsedData, data, searchQuery, containerSize, collapsedNodeIds,
                  selectedNodeId, viewBox, viewBoxRendered, viewBoxRef,
                  positionedData, isPanning, startPoint, now, fitTimerPending, trail >>

\* setTimeout(fitToScreen, 100) of the mount fires; its fitToScreen closes
\* over the first render, whose collapsed set is empty
FitTimer ==
  /\ fitTimerPending
  /\ fitTimerPending' = FALSE
  /\ fitToScreen(flattenNodes(PositionedData(data, {})))
  /\ UNCHANGED << parsedData, data, searchQuery, containerSize, collapsedNodeIds,
                  selectedNodeId, viewBox, viewBoxRendered, viewBoxRef,
                  positionedData, isPanning, startPoint, now, trail >>

\* mutant: the clicked node is framed but not selected
focusNode_NoSelect(node) ==
  LET containerWidth == Fin(containerSize[1])
      containerHeight == Fin(containerSize[2])
      nodeCenterX == RAdd(Fin(node.x), RDiv(Fin(NODE_WIDTH), Fin(2)))
      nodeCenterY == RAdd(Fin(node.y), RDiv(Fin(NODE_HEIGHT_BASE), Fin(2)))
      target == Box(RSub(nodeCenterX, RDiv(containerWidth, Fin(2))),
                    RSub(nodeCenterY, RDiv(containerHeight, Fin(2))),
                    containerWidth, containerHeight)
  IN /\ tweenViewBox(target, viewBoxRef)
     /\ UNCHANGED << parsedData, data, searchQuery, containerSize, collapsedNodeIds,
                     selectedNodeId, viewBox, viewBoxRendered, viewBoxRef,
                     positionedData, isPanning, startPoint, now,
                     fitTimerPending, trail >>

\* a click on a node: onClick -> focusNode(node)
focusNode(node) ==
  LET containerWidth == Fin(containerSize[1])
      containerHeight == Fin(containerSize[2])
      targetScale == Fin(1)
      targetWidth == RDiv(containerWidth, targetScale)
      targetHeight == RDiv(containerHeight, targetScale)
      nodeCenterX == RAdd(Fin(node.x), RDiv(Fin(NODE_WIDTH), Fin(2)))
      nodeCenterY == RAdd(Fin(node.y), RDiv(Fin(NODE_HEIGHT_BASE), Fin(2)))
      target == Box(RSub(nodeCenterX, RDiv(targetWidth, Fin(2))),
                    RSub(nodeCenterY, RDiv(targetHeight, Fin(2))),
                    targetWidth, targetHeight)
  IN /\ selectedNodeId' = node.id
     /\ tweenViewBox(target, viewBoxRef)
     /\ UNCHANGED << parsedData, data, searchQuery, containerSize, collapsedNodeIds,
                     viewBox, viewBoxRendered, viewBoxRef, positionedData,
                     isPanning, startPoint, now, fitTimerPending, trail >>

\* the nodes of `nodes` that match the trimmed, lower-cased query
SearchMatches(nodes, lowerQuery) ==
  LET Match(n) == \/ includes(toLowerCase(n.topic), lowerQuery)
                  \/ includes(toLowerCase(n.content), lowerQuery)
  IN SelectSeq(nodes, Match)

\* the window the search effect frames a non-empty list of matches with
SearchTarget(matches) ==
  LET mxs == { matches[i].x : i \in 1..Len(matches) }
      mys == { matches[i].y : i \in 1..Len(matches) }
      minX == MinOf(mxs)
      maxX == MaxOf(mxs) + NODE_WIDTH
      minY == MinOf(mys)
      maxY == MaxOf(mys) + NODE_HEIGHT_BASE
      padding == 150
      boxWidth == maxX - minX
      boxHeight == maxY - minY
      minViewWidth == NODE_WIDTH * 2
      minViewHeight == NODE_HEIGHT_BASE * 4
      targetWidth == Fin(Max2(boxWidth + (padding * 2), minViewWidth))
      targetHeight == Fin(Max2(boxHeight + (padding * 2), minViewHeight))
      centerX == RAdd(Fin(minX), RDiv(Fin(boxWidth), Fin(2)))
      centerY == RAdd(Fin(minY), RDiv(Fin(boxHeight), Fin(2)))
  IN Box(RSub(centerX, RDiv(targetWidth, Fin(2))),
         RSub(centerY, RDiv(targetHeight, Fin(2))),
         targetWidth, targetHeight)

\* mutant: a query without a match resets the viewport to the initial window
SearchEffect_ResetOnNoMatch(query, nodes, ref) ==
  IF trim(query) = <<>>
    THEN /\ selectedNodeId' = NoSelection
         /\ UNCHANGED tweenVars
    ELSE
      LET lowerQuery == toLowerCase(trim(query))
          matches == SearchMatches(nodes, lowerQuery)
      IN /\ UNCHANGED selectedNodeId
         /\ IF Len(matches) > 0
              THEN tweenViewBox(SearchTarget(matches), ref)
              ELSE tweenViewBox(Box(Fin(0), Fin(0), Fin(1000), Fin(800)), ref)

\* mutant: an empty query resets the viewport to the initial window
SearchEffect_ResetOnEmpty(query, nodes, ref) ==
  IF trim(query) = <<>>
    THEN /\ selectedNodeId' = NoSelection
         /\ tweenViewBox(Box(Fin(0), Fin(0), Fin(1000), Fin(800)), ref)
    ELSE
      LET lowerQuery == toLowerCase(trim(query))
          matches == SearchMatches(nodes, lowerQuery)
      IN /\ UNCHANGED selectedNodeId
         /\ IF Len(matches) > 0
              THEN tweenViewBox(SearchTarget(matches), ref)
              ELSE UNCHANGED tweenVars

\* the effect with dependencies [searchQuery, allNodes], run with
\* viewBoxRef.current = ref
SearchEffect(query, nodes, ref) ==
  IF trim(query) = <<>>
    THEN /\ selectedNodeId' = NoSelection
         /\ UNCHANGED tweenVars
    ELSE
      LET lowerQuery == toLowerCase(trim(query))
          matches == SearchMatches(nodes, lowerQuery)
      IN /\ UNCHANGED selectedNodeId
         /\ IF Len(matches) > 0
              THEN tweenViewBox(SearchTarget(matches), ref)
              ELSE UNCHANGED tweenVars

\* the searchQuery prop changes; the component renders and its effects run
SearchChange(query) ==
  /\ query # searchQuery
  /\ searchQuery' = query
  /\ viewBoxRendered' = viewBox
  /\ viewBoxRef' = viewBox
  /\ SearchEffect(query, allNodes, viewBox)
  /\ UNCHANGED << parsedData, data, containerSize, collapsedNodeIds, viewBox,
                  positionedData, isPanning, startPoint, now, fitTimerPending, trail >>

\* a zoom button
zoomByFactor(factor) ==
  LET targetWidth == RMul(viewBoxRendered.width, factor)
      targetHeight == RMul(viewBoxRendered.height, factor)
      dx == RDiv(RSub(viewBoxRendered.width, targetWidth), Fin(2))
      dy == RDiv(RSub(viewBoxRendered.height, targetHeight), Fin(2))
  IN /\ tweenViewBox(Box(RAdd(viewBoxRendered.x, dx), RAdd(viewBoxRendered.y, dy),
                         targetWidth, targetHeight), viewBoxRef)
     /\ UNCHANGED << parsedData, data, searchQuery, containerSize, collapsedNodeIds,
                     selectedNodeId, viewBox, viewBoxRendered, viewBoxRef,
                     positionedData, isPanning, startPoint, now,
                     fitTimerPending, trail >>

(***************************************************************************)
(* Collapse toggle.                                                        *)
(***************************************************************************)
\* the collapse/expand button of a visible node that has children; the
\* state update re-renders: the layout is recomputed, viewBoxRef is synced
\* and the search effect runs again because allNodes is a new array
toggleNodeCollapse(id) ==
  /\ \E i \in 1..Len(allNodes) :
        /\ allNodes[i].id = id
        /\ (allNodes[i].hasHiddenChildren \/ Len(allNodes[i].children) > 0)
  /\ collapsedNodeIds' = ToggledSet(collapsedNodeIds, id)
  /\ positionedData' = PositionedData(data, collapsedNodeIds')
  /\ viewBoxRendered' = viewBox
  /\ viewBoxRef' = viewBox
  /\ SearchEffect(searchQuery, flattenNodes(positionedData'), viewBox)
  /\ trail' = (IF Len(trail) = 2 THEN Tail(trail) ELSE trail)
                \o << [id |-> id, collapsed |-> collapsedNodeIds,
                       layout |-> positionedData] >>
  /\ UNCHANGED << parsedData, data, searchQuery, containerSize, viewBox, isPanning,
                  startPoint, now, fitTimerPending >>

(***************************************************************************)
(* Pan and wheel.                                                          *)
(***************************************************************************)
\* mutant: the handle is forgotten without cancelling the frame request
handleMouseDown_NoCancel(button, point) ==
  IF button # 0 /\ button # 1
    THEN UNCHANGED << parsedData, data, searchQuery, containerSize, collapsedNodeIds,
                      selectedNodeId, viewBox, viewBoxRendered, viewBoxRef,
                      positionedData, isPanning, startPoint, animationRef,
                      rafQueue, nextHandle, now, fitTimerPending, tweenSeq,
                      cancelled, trail >>
    ELSE
      /\ animationRef' = 0
      /\ isPanning' = TRUE
      /\ startPoint' = point
      /\ selectedNodeId' = NoSelection
      /\ UNCHANGED << parsedData, data, searchQuery, containerSize, collapsedNodeIds,
                      viewBox, viewBoxRendered, viewBoxRef, positionedData,
                      rafQueue, nextHandle, now, fitTimerPending, tweenSeq,
                      cancelled, trail >>

handleMouseDown(button, point) ==
  IF button # 0 /\ button # 1
    THEN UNCHANGED << parsedData, data, searchQuery, containerSize, collapsedNodeIds,
                      selectedNodeId, viewBox, viewBoxRendered, viewBoxRef,
                      positionedData, isPanning, startPoint, animationRef,
                      rafQueue, nextHandle, now, fitTimerPending, tweenSeq,
                      cancelled, trail >>
    ELSE
      /\ rafQueue' = IF animationRef # 0
                       THEN cancelAnimationFrame(rafQueue, animationRef)
                       ELSE rafQueue
      /\ animationRef' = 0
      /\ isPanning' = TRUE
      /\ startPoint' = point
      /\ selectedNodeId' = NoSelection
      /\ cancelled' = cancelled \cup { <<cb.tween, "pan">> : cb \in rafQueue \ rafQueue' }
      /\ UNCHANGED << parsedData, data, searchQuery, containerSize, collapsedNodeIds,
                      viewBox, viewBoxRendered, viewBoxRef, positionedData,
                      nextHandle, now, fitTimerPending, tweenSeq, trail >>

handleGlobalMouseMove(point) ==
  IF ~isPanning
    THEN UNCHANGED << parsedData, data, searchQuery, containerSize, collapsedNodeIds,
                      selectedNodeId, viewBox, viewBoxRendered, viewBoxRef,
                      positionedData, isPanning, startPoint, animationRef,
                      rafQueue, nextHandle, now, fitTimerPending, tweenSeq,
                      cancelled, trail >>
    ELSE
      LET currentViewBox == viewBoxRef
          width == Fin(containerSize[1])
          height == Fin(containerSize[2])
          scaleX == RDiv(currentViewBox.width, width)
          scaleY == RDiv(currentViewBox.height, height)
          dx == RMul(Fin(point[1] - startPoint[1]), scaleX)
          dy == RMul(Fin(point[2] - startPoint[2]), scaleY)
      IN /\ startPoint' = point
         /\ viewBox' = [viewBox EXCEPT !.x = RSub(@, dx), !.y = RSub(@, dy)]
         /\ UNCHANGED << parsedData, data, searchQuery, containerSize, collapsedNodeIds,
                         selectedNodeId, viewBoxRendered, viewBoxRef,
                         positionedData, isPanning, animationRef, rafQueue,
                         nextHandle, now, fitTimerPending, tweenSeq,
                         cancelled, trail >>

handleGlobalMouseUp ==
  /\ isPanning' = FALSE
  /\ UNCHANGED << parsedData, data, searchQuery, containerSize, collapsedNodeIds,
                  selectedNodeId, viewBox, viewBoxRendered, viewBoxRef,
                  positionedData, startPoint, animationRef, rafQueue,
                  nextHandle, now, fitTimerPending, tweenSeq, cancelled,
                  trail >>

\* mutant: only the modifier key selects the zoom branch
isZoom_CtrlOnly(e) == e.ctrlKey

\* the test that sends a wheel event to the zoom branch
isZoom(e) == e.ctrlKey \/ (Abs(e.deltaY) > Abs(e.deltaX) /\ e.deltaX = 0)

\* the container's bounding rect has left = top = 0
handleWheel(e) ==
  LET width == Fin(containerSize[1])
      height == Fin(containerSize[2])
      mouseX == Fin(e.clientX - 0)
      mouseY == Fin(e.clientY - 0)
      zoomIn == e.deltaY < 0
      scaleFactor == Rat(105, 100)
      factor == IF zoomIn THEN RDiv(Fin(1), scaleFactor) ELSE scaleFactor
      newWidth == RMul(viewBoxRendered.width, factor)
      newHeight == RMul(viewBoxRendered.height, factor)
      dx == RMul(RDiv(mouseX, width), RSub(viewBoxRendered.width, newWidth))
      dy == RMul(RDiv(mouseY, height), RSub(viewBoxRendered.height, newHeight))
      scaleX == RDiv(viewBoxRendered.width, width)
      scaleY == RDiv(viewBoxRendered.height, height)
  IN /\ rafQueue' = IF animationRef # 0
                      THEN cancelAnimationFrame(rafQueue, animationRef)
                      ELSE rafQueue
     /\ animationRef' = 0
     /\ cancelled' = cancelled \cup { <<cb.tween, "wheel">> : cb \in rafQueue \ rafQueue' }
     /\ IF isZoom(e) /\ ~e.shiftKey
          THEN viewBox' = Box(RAdd(viewBox.x, dx), RAdd(viewBox.y, dy),
                              newWidth, newHeight)
          ELSE viewBox' = [viewBox EXCEPT
                             !.x = RAdd(@, RMul(Fin(e.deltaX), scaleX)),
                             !.y = RAdd(@, RMul(Fin(e.deltaY), scaleY))]
     /\ UNCHANGED << parsedData, data, searchQuery, containerSize, collapsedNodeIds,
                     selectedNodeId, viewBoxRendered, viewBoxRef,
                     positionedData, isPanning, startPoint, nextHandle, now,
                     fitTimerPending, tweenSeq, trail >>

(***************************************************************************)
(* Rendering and the container.                                            *)
(***************************************************************************)
\* React renders the queued viewBox updates; the effect on [viewBox] copies
\* the rendered value into viewBoxRef
Render ==
  /\ viewBox # viewBoxRendered
  /\ viewBoxRendered' = viewBox
  /\ viewBoxRef' = viewBox
  /\ UNCHANGED << parsedData, data, searchQuery, containerSize, collapsedNodeIds,
                  selectedNodeId, viewBox, positionedData, isPanning,
                  startPoint, animationRef, rafQueue, nextHandle, now,
                  fitTimerPending, tweenSeq, cancelled, trail,
                  lastOp, events >>

\* the container is resized; the ResizeObserver callback is empty
Resize(size) ==
  /\ size # containerSize
  /\ containerSize' = size
  /\ UNCHANGED << parsedData, data, searchQuery, collapsedNodeIds, selectedNodeId,
                  viewBox, viewBoxRendered, viewBoxRef, positionedData,
                  isPanning, startPoint, animationRef, rafQueue, nextHandle,
                  now, fitTimerPending, tweenSeq, cancelled, trail >>

(***************************************************************************)
(* Specifications.                                                         *)
(***************************************************************************)
initialViewBox == Box(Fin(0), Fin(0), Fin(1000), Fin(800))

\* the state after the component has mounted with tree and container size
InitWith(tree, size) ==
  /\ parsedData = tree
  /\ data = tree
  /\ searchQuery = <<>>
  /\ containerSize = size
  /\ collapsedNodeIds = {}
  /\ selectedNodeId = NoSelection
  /\ viewBox = initialViewBox
  /\ viewBoxRendered = initialViewBox
  /\ viewBoxRef = initialViewBox
  /\ positionedData = PositionedData(tree, {})
  /\ isPanning = FALSE
  /\ startPoint = << 0, 0 >>
  /\ animationRef = 0
  /\ rafQueue = {}
  /\ nextHandle = 1
  /\ now = 0
  /\ fitTimerPending = TRUE
  /\ tweenSeq = 0
  /\ cancelled = {}
  /\ trail = <<>>
  /\ lastOp = "mount"
  /\ events = 0

\* one event handled by the component
Event(name, A) ==
  /\ events < MaxEvents
  /\ events' = events + 1
  /\ lastOp' = name
  /\ A

Init == \E tree \in ViewTrees : InitWith(tree, << 1000, 800 >>)

Next ==
  \/ \E b \in Buttons, p \in DownPoints :
        Event("handleMouseDown", handleMouseDown(b, p))
  \/ \E p \in MousePoints :
        Event("handleGlobalMouseMove", handleGlobalMouseMove(p))
  \/ Event("handleGlobalMouseUp", handleGlobalMouseUp)
  \/ \E e \in WheelEvents : Event("handleWheel", handleWheel(e))
  \/ \E f \in ZoomFactors : Event("zoomByFactor", zoomByFactor(f))
  \/ Event("fitToScreen", FitButton)
  \/ Event("fitTimer", FitTimer)
  \/ \E i \in 1..Len(allNodes) : Event("focusNode", focusNode(allNodes[i]))
  \/ \E i \in 1..Len(allNodes) :
        Event("toggleNodeCollapse", toggleNodeCollapse(allNodes[i].id))
  \/ \E q \in Queries : Event("searchChange", SearchChange(q))
  \/ \E cb \in rafQueue, k \in 1..2 :
        Event("animate", AnimationFrame(cb, k * FrameStep))
  \/ \E size \in ContainerSizes : Event("resize", Resize(size))
  \/ Render

Spec == Init /\ [][Next]_vars

\* the layout engine alone: any tree, any sequence of collapse toggles
InitLayout ==
  \E tree \in LayoutTrees \cup WideTrees : InitWith(tree, << 1000, 800 >>)

NextLayout ==
  \E i \in 1..Len(allNodes) :
     /\ toggleNodeCollapse(allNodes[i].id)
     /\ lastOp' = "toggleNodeCollapse"
     /\ UNCHANGED events

SpecLayout == InitLayout /\ [][NextLayout]_vars

(***************************************************************************)
(* Search: the matcher of the application (App.tsx) over the source tree   *)
(* and the matcher of the component over the positioned nodes.             *)
(***************************************************************************)
RECURSIVE searchInMindMap(_, _)
RECURSIVE SearchInChildren(_, _, _)
\* the for loop of searchInMindMap over the children from index i on
SearchInChildren(query, children, i) ==
  IF i > Len(children) THEN <<>>
  ELSE searchInMindMap(query, children[i])
         \o SearchInChildren(query, children, i + 1)

searchInMindMap(query, node) ==
  LET lowerCaseQuery == toLowerCase(query)
      own == IF \/ includes(toLowerCase(node.topic), lowerCaseQuery)
                \/ includes(toLowerCase(node.content), lowerCaseQuery)
               THEN <<node>> ELSE <<>>
  IN own \o SearchInChildren(query, node.children, 1)

\* the searchResults state of the application after its effect has run
searchResults ==
  IF trim(searchQuery) # <<>> THEN searchInMindMap(searchQuery, data) ELSE <<>>

\* the query the component highlights with
lowerCaseQuery == toLowerCase(trim(searchQuery))

\* the positioned nodes the component renders as search matches
isSearchMatch(node) ==
  IF lowerCaseQuery # <<>>
    THEN \/ includes(toLowerCase(node.topic), lowerCaseQuery)
         \/ includes(toLowerCase(node.content), lowerCaseQuery)
    ELSE FALSE

highlightedNodes == SelectSeq(allNodes, isSearchMatch)

(***************************************************************************)
(* The framing operations (search, focus, fit) on trees with a node whose  *)
(* text wraps over many lines, in a container of either aspect ratio.      *)
(***************************************************************************)
\* a short node and a node whose topic wraps over ten lines
FramingTexts ==
  { [topic |-> <<"M", "a", "p">>, content |-> <<>>],
    [topic |-> Rep("t", 226),     content |-> <<>>] }

\* a short root with two leaf children, the first short
FramingTrees ==
  { t \in TreesExact(<<>>, 3, FramingTexts) :
      /\ Len(t.children) = 2
      /\ t.topic = <<"M", "a", "p">>
      /\ t.children[1].topic = <<"M", "a", "p">> }

FramingSizes == { <<1000, 800>>, <<1000, 400>> }

FramingQueries ==
  { <<>>, <<" ">>, <<"m", "A">>, <<"z">>, <<"T", " ">> }

InitFraming ==
  \E tree \in FramingTrees, size \in FramingSizes : InitWith(tree, size)

NextFraming ==
  \/ \E q \in FramingQueries : Event("searchChange", SearchChange(q))
  \/ \E i \in 1..Len(allNodes) : Event("focusNode", focusNode(allNodes[i]))
  \/ Event("fitToScreen", FitButton)
  \/ Event("fitTimer", FitTimer)
  \/ \E i \in 1..Len(allNodes) :
        Event("toggleNodeCollapse", toggleNodeCollapse(allNodes[i].id))
  \/ \E cb \in rafQueue, k \in 1..2 :
        Event("animate", AnimationFrame(cb, k * FrameStep))
  \/ Render

SpecFraming == InitFraming /\ [][NextFraming]_vars

(***************************************************************************)
(* Normalization of the parsed tree (services/geminiService.ts).  A parsed *)
(* node is a record that may lack the field children.                      *)
(***************************************************************************)
\* the parsed trees with exactly n nodes: a node without children either
\* lacks the field or has an empty array
RECURSIVE ParsedExact(_, _), ParsedForest(_, _, _)
ParsedExact(path, n) ==
  (IF n = 1
     THEN { [id |-> path, topic |-> <<"M", "a", "p">>, content |-> <<>>] }
     ELSE {})
  \cup { [id |-> path, topic |-> <<"M", "a", "p">>, content |-> <<>>,
          children |-> f] : f \in ParsedForest(path, 1, n - 1) }

ParsedForest(path, i, m) ==
  IF m = 0 THEN { <<>> }
  ELSE UNION { { <<t>> \o rest :
                   t \in ParsedExact(Append(path, i), k),
                   rest \in ParsedForest(path, i + 1, m - k) } :
               k \in 1..m }

ParsedTrees == UNION { ParsedExact(<<>>, n) : n \in 1..MaxNodes }

\* mutant: the children array is reset whether or not the node has one
normalizeMindMapData_ResetChildren(node) ==
  [id |-> node.id, topic |-> node.topic, content |-> node.content,
   children |-> <<>>]

\* the tree that normalizeMindMapData(node) leaves in place of node
RECURSIVE normalizeMindMapData(_)
normalizeMindMapData(node) ==
  LET children == IF "children" \in DOMAIN node THEN node.children ELSE <<>>
  IN [id |-> node.id, topic |-> node.topic, content |-> node.content,
      children |-> [i \in 1..Len(children) |->
                      normalizeMindMapData(children[i])]]

\* no tree yet: mindMapData is null and the component is not mounted
NoData == <<>>

InitParsed ==
  \E raw \in ParsedTrees :
     /\ parsedData = raw
     /\ data = NoData
     /\ positionedData = NoData
     /\ searchQuery = <<>>
     /\ containerSize = << 1000, 800 >>
     /\ collapsedNodeIds = {}
     /\ selectedNodeId = NoSelection
     /\ viewBox = initialViewBox
     /\ viewBoxRendered = initialViewBox
     /\ viewBoxRef = initialViewBox
     /\ isPanning = FALSE
     /\ startPoint = << 0, 0 >>
     /\ animationRef = 0
     /\ rafQueue = {}
     /\ nextHandle = 1
     /\ now = 0
     /\ fitTimerPending = TRUE
     /\ tweenSeq = 0
     /\ cancelled = {}
     /\ trail = <<>>
     /\ lastOp = "parsed"
     /\ events = 0

\* generateMindMapStructure after JSON.parse: the tree is normalized and
\* returned, and the component mounts with it and lays it out
generateMindMapStructure ==
  /\ lastOp = "parsed"
  /\ data' = normalizeMindMapData(parsedData)
  /\ positionedData' = PositionedData(data', {})
  /\ lastOp' = "mount"
  /\ UNCHANGED << parsedData, searchQuery, containerSize, collapsedNodeIds,
                  selectedNodeId, viewBox, viewBoxRendered, viewBoxRef,
                  isPanning, startPoint, animationRef, rafQueue, nextHandle,
                  now, fitTimerPending, tweenSeq, cancelled, trail, events >>

NextNormalize ==
  \/ generateMindMapStructure
  \/ /\ lastOp # "parsed"
     /\ \E i \in 1..Len(allNodes) :
           /\ toggleNodeCollapse(allNodes[i].id)
           /\ lastOp' = "toggleNodeCollapse"
           /\ UNCHANGED events

SpecNormalize == InitParsed /\ [][NextNormalize]_vars

(***************************************************************************)
(* Connector router.                                                       *)
(***************************************************************************)
\* corner radius of a connector
radius == 12

\* a path command with its coordinate pairs
Cmd(op, pts) == [op |-> op, pts |-> pts]

\* mutant: the fallback is taken only when both runs are tight
OrthogonalConnector_BothTight(from, to) ==
  LET startX == from.x + NODE_WIDTH
      startY == from.y + Half(from.height)
      endX == to.x
      endY == to.y + Half(to.height)
      midX == startX + Half(endX - startX)
  IN IF Abs(midX - startX) < radius /\ Abs(endY - startY) < radius
       THEN << Cmd("M", << <<startX, startY>> >>),
               Cmd("L", << <<midX, startY>> >>),
               Cmd("L", << <<midX, endY>> >>),
               Cmd("L", << <<endX, endY>> >>) >>
       ELSE LET dirY == IF endY > startY THEN 1 ELSE -1
            IN << Cmd("M", << <<startX, startY>> >>),
                  Cmd("L", << <<midX - radius, startY>> >>),
                  Cmd("Q", << <<midX, startY>>,
                              <<midX, startY + radius * dirY>> >>),
                  Cmd("L", << <<midX, endY - radius * dirY>> >>),
                  Cmd("Q", << <<midX, endY>>, <<midX + radius, endY>> >>),
                  Cmd("L", << <<endX, endY>> >>) >>

\* the path data of the connector from a parent box to a child box
OrthogonalConnector(from, to) ==
  LET startX == from.x + NODE_WIDTH
      startY == from.y + Half(from.height)
      endX == to.x
      endY == to.y + Half(to.height)
      midX == startX + Half(endX - startX)
  IN IF Abs(midX - startX) < radius \/ Abs(endY - startY) < radius
       THEN << Cmd("M", << <<startX, startY>> >>),
               Cmd("L", << <<midX, startY>> >>),
               Cmd("L", << <<midX, endY>> >>),
               Cmd("L", << <<endX, endY>> >>) >>
       ELSE LET dirY == IF endY > startY THEN 1 ELSE -1
            IN << Cmd("M", << <<startX, startY>> >>),
                  Cmd("L", << <<midX - radius, startY>> >>),
                  Cmd("Q", << <<midX, startY>>,
                              <<midX, startY + radius * dirY>> >>),
                  Cmd("L", << <<midX, endY - radius * dirY>> >>),
                  Cmd("Q", << <<midX, endY>>, <<midX + radius, endY>> >>),
                  Cmd("L", << <<endX, endY>> >>) >>

\* the from/to argument built from a positioned node
BoxOf(node) == [x |-> node.x, y |-> node.y, height |-> node.height]

\* the connectors layer: one connector per rendered parent/child pair
Connectors ==
  UNION { { [from |-> BoxOf(allNodes[i]),
             to |-> BoxOf(allNodes[i].children[j]),
             path |-> OrthogonalConnector(BoxOf(allNodes[i]),
                                          BoxOf(allNodes[i].children[j]))] :
              j \in 1..Len(allNodes[i].children) } :
          i \in 1..Len(allNodes) }

(***************************************************************************)
(* Properties of the layout engine (checked under SpecLayout).             *)
(***************************************************************************)
NodeSet == Range(allNodes)

\* half-open intervals [lo1, hi1) and [lo2, hi2) do not intersect
Disjoint(lo1, hi1, lo2, hi2) == hi1 <= lo2 \/ hi2 <= lo1

\* the top of a positioned node's reserved span, recovered from its fields
SpanTopOf(n) == n.y - ((n.treeHeight - n.height) \div 2)

\* every difference the layout halves is even, so Half is exact
HeightsEven ==
  \A n \in NodeSet : n.height % 2 = 0 /\ n.treeHeight % 2 = 0

\* C1 as stated: for any two siblings a and b the intervals
\* [a.y, a.y + a.treeHeight) and [b.y, b.y + b.treeHeight), taken from the
\* positioned nodes' own y fields, do not intersect.
C1_OwnYIntervalsDisjoint ==
  \A p \in NodeSet : \A i, j \in 1..Len(p.children) :
     i # j =>
       LET a == p.children[i]
           b == p.children[j]
       IN Disjoint(a.y, a.y + a.treeHeight, b.y, b.y + b.treeHeight)

\* C1 amended: for any two siblings a and b the reserved spans
\* [top, top + treeHeight), with top = y - (treeHeight - height) / 2 the
\* top of the span the node is centred in, do not intersect.
C1_SiblingSpansDisjoint ==
  \A p \in NodeSet : \A i, j \in 1..Len(p.children) :
     i # j =>
       LET a == p.children[i]
           b == p.children[j]
       IN Disjoint(SpanTopOf(a), SpanTopOf(a) + a.treeHeight,
                   SpanTopOf(b), SpanTopOf(b) + b.treeHeight)

\* a node with two positioned children, the first of which is centred
\* inside a span taller than itself by more than the sibling gap
C1_Witness ==
  \E p \in NodeSet :
     /\ Len(p.children) >= 2
     /\ p.children[1].treeHeight - p.children[1].height > 2 * VERTICAL_SPACING

\* C2: consecutive children c_i, c_(i+1) are laid out with span tops t_i,
\* t_(i+1) such that t_i + treeHeight(c_i) + VERTICAL_SPACING = t_(i+1), and
\* the spans [t_i, t_i + treeHeight(c_i)) of distinct children are disjoint.
C2_ConsecutiveSpanTops ==
  \A p \in NodeSet :
     /\ \A i \in 1..(Len(p.children) - 1) :
           p.children[i].spanTop + p.children[i].treeHeight + VERTICAL_SPACING
             = p.children[i + 1].spanTop
     /\ \A i, j \in 1..Len(p.children) :
           i # j => Disjoint(p.children[i].spanTop,
                             p.children[i].spanTop + p.children[i].treeHeight,
                             p.children[j].spanTop,
                             p.children[j].spanTop + p.children[j].treeHeight)

\* a parent with three positioned children while some node is collapsed
C2_Witness ==
  /\ collapsedNodeIds # {}
  /\ \E p \in NodeSet : Len(p.children) >= 3

\* C3: every node's box stays inside its reserved span: y >= spanTop,
\* y + height <= spanTop + treeHeight, y = spanTop + (treeHeight - height)/2,
\* and the node's vertical centre lies within the span.
C3_NodeInsideSpan ==
  \A n \in NodeSet :
     /\ n.y >= n.spanTop
     /\ n.y + n.height <= n.spanTop + n.treeHeight
     /\ 2 * (n.y - n.spanTop) = n.treeHeight - n.height
     /\ 2 * n.spanTop <= 2 * n.y + n.height
     /\ 2 * n.y + n.height <= 2 * (n.spanTop + n.treeHeight)

\* a node taller than its block of children, and a node shorter than it
C3_Witness ==
  /\ \E n \in NodeSet :
        Len(n.children) > 0 /\ n.treeHeight = n.height /\ n.children[1].spanTop > n.spanTop
  /\ \E n \in NodeSet : n.treeHeight > n.height

\* C4: toggling the same node twice restores the collapsed set and the
\* positioned tree there were before the two toggles.
C4_ToggleTwiceRestores ==
  (Len(trail) = 2 /\ trail[1].id = trail[2].id) =>
     /\ collapsedNodeIds = trail[1].collapsed
     /\ positionedData = trail[1].layout

\* the same node toggled twice, the first toggle having changed the layout
C4_Witness ==
  /\ Len(trail) = 2
  /\ trail[1].id = trail[2].id
  /\ trail[2].layout # trail[1].layout
  /\ trail[1].collapsed # {}

\* the source node with the given id
SourceNode(id) == CHOOSE n \in Range(flattenNodes(data)) : n.id = id

\* the ids of the proper descendants of the source node with the given id
DescendantIds(id) ==
  { m.id : m \in Range(flattenNodes(SourceNode(id))) } \ {id}

\* C5: a positioned node whose id is collapsed has no children, none of its
\* descendants is in the flattened positioned tree, and its height and its
\* treeHeight are NODE_HEIGHT_BASE whatever its text and hidden subtree.
C5_CollapsedNode ==
  \A n \in NodeSet :
     n.id \in collapsedNodeIds =>
       /\ n.children = <<>>
       /\ \A m \in NodeSet : m.id \notin DescendantIds(n.id)
       /\ n.height = NODE_HEIGHT_BASE
       /\ n.treeHeight = NODE_HEIGHT_BASE

\* a collapsed node with long text that hides at least three descendants
C5_Witness ==
  \E n \in NodeSet :
     /\ n.id \in collapsedNodeIds
     /\ estimateNodeHeight(SourceNode(n.id), FALSE) > NODE_HEIGHT_BASE
     /\ Cardinality(DescendantIds(n.id)) >= 3

\* the last toggle collapsed a node
LastCollapse ==
  /\ Len(trail) >= 1
  /\ trail[Len(trail)].id \notin trail[Len(trail)].collapsed

\* the positioned node with the given id in a positioned tree
NodeIn(layout, id) == CHOOSE m \in Range(flattenNodes(layout)) : m.id = id

\* C6 as stated: after collapsing n, every surviving node other than n has
\* the x, y and height it had before.
C6_CollapseKeepsGeometry ==
  LastCollapse =>
    LET last == trail[Len(trail)]
    IN \A m \in NodeSet :
          m.id # last.id =>
            /\ m.x = NodeIn(last.layout, m.id).x
            /\ m.y = NodeIn(last.layout, m.id).y
            /\ m.height = NodeIn(last.layout, m.id).height

\* C6 amended: after collapsing n, every surviving node other than n has
\* the x and height it had before, and also the y it had before whenever
\* the collapse leaves the height of n's reserved span unchanged.
C6_CollapseKeepsXAndHeight ==
  LastCollapse =>
    LET last == trail[Len(trail)]
        spanKept == NodeIn(positionedData, last.id).treeHeight
                      = NodeIn(last.layout, last.id).treeHeight
    IN \A m \in NodeSet :
          m.id # last.id =>
            /\ m.x = NodeIn(last.layout, m.id).x
            /\ m.height = NodeIn(last.layout, m.id).height
            /\ spanKept => m.y = NodeIn(last.layout, m.id).y

\* the first of several siblings was collapsed and the height of its
\* reserved span is what it was before
C6_Witness ==
  /\ LastCollapse
  /\ LET last == trail[Len(trail)]
     IN /\ NodeIn(positionedData, last.id).treeHeight
             = NodeIn(last.layout, last.id).treeHeight
        /\ \E p \in NodeSet :
              /\ Len(p.children) >= 2
              /\ p.children[1].id = last.id

\* the sum of the treeHeight fields of the positioned nodes from index i on
RECURSIVE SumTreeHeights(_, _)
SumTreeHeights(nodes, i) ==
  IF i > Len(nodes) THEN 0
  ELSE nodes[i].treeHeight + SumTreeHeights(nodes, i + 1)

\* C22: for every node of the positioned tree, treeHeight equals
\* calculateTreeMetrics(node, collapsedSet).height: the node's own estimated
\* height if it is collapsed or a leaf, otherwise max(own height, sum of
\* the children's subtree heights + VERTICAL_SPACING*(k-1)) for k children;
\* a single-node tree has treeHeight equal to the root's own height.
C22_TreeHeightIsMetric ==
  \A n \in NodeSet :
     LET src == SourceNode(n.id)
         own == estimateNodeHeight(src, n.id \in collapsedNodeIds)
         k == Len(n.children)
     IN /\ n.treeHeight = calculateTreeMetrics(src, collapsedNodeIds)
        /\ n.height = own
        /\ IF n.id \in collapsedNodeIds \/ Len(src.children) = 0
             THEN n.treeHeight = own
             ELSE n.treeHeight
                    = Max2(own, SumTreeHeights(n.children, 1)
                                  + (VERTICAL_SPACING * (k - 1)))

\* some node is collapsed, a node with several children is shorter than
\* its block of children and another with children is taller than its own
C22_Witness ==
  /\ collapsedNodeIds # {}
  /\ \E n \in NodeSet : Len(n.children) >= 2 /\ n.treeHeight > n.height
  /\ \E n \in NodeSet : Len(n.children) >= 1 /\ n.treeHeight = n.height

\* the colour of the i-th direct child of the root, i counted from 0
PaletteColor(i) == BRANCH_COLORS[(i % 8) + 1]

\* the root has no colour, its i-th child has the palette colour i mod 8,
\* and below the root's children every child has its parent's colour
BranchColoring ==
  /\ positionedData.color = NoColor
  /\ \A i \in 1..Len(positionedData.children) :
        positionedData.children[i].color = PaletteColor(i - 1)
  /\ \A p \in NodeSet :
        p.depth >= 1 =>
          \A i \in 1..Len(p.children) : p.children[i].color = p.color

\* C20 as stated: the root has no colour, the i-th direct child of the
\* root has colour BRANCH_COLORS[i mod 8], every node at depth >= 2 has the
\* colour of its depth-1 ancestor, and any two distinct direct children of
\* the root have distinct colours.
C20_BranchColorsDistinct ==
  /\ BranchColoring
  /\ \A i, j \in 1..Len(positionedData.children) :
        i # j => positionedData.children[i].color
                   # positionedData.children[j].color

\* C20 amended: as above, but two distinct direct children of the root
\* have distinct colours exactly when their indexes differ modulo 8.
C20_BranchColorsCyclic ==
  /\ BranchColoring
  /\ \A i, j \in 1..Len(positionedData.children) :
        (positionedData.children[i].color = positionedData.children[j].color)
          <=> ((i - j) % 8 = 0)

\* the root shows nine children and the ninth shows a child of its own
C20_Witness ==
  /\ Len(positionedData.children) > Len(BRANCH_COLORS)
  /\ \E n \in NodeSet : n.depth = 2 /\ n.color = BRANCH_COLORS[1]

(***************************************************************************)
(* Properties of the viewport controller (checked under Spec).             *)
(***************************************************************************)
Positive(a) == IsFinite(a) /\ a.n > 0

ZeroContainer == containerSize[1] = 0 \/ containerSize[2] = 0

\* C7: in every reachable state, for any container size including 0x0,
\* viewBox.width and viewBox.height are finite and strictly greater than 0.
C7_ViewBoxPositive ==
  Positive(viewBox.width) /\ Positive(viewBox.height)

\* C8: when the container's pixel width or height is 0, a wheel event and a
\* mouse-move during a pan gesture leave viewBox x, y, width and height as
\* they were before the event.
C8_ZeroContainerSkipsUpdate ==
  [][ ( /\ ZeroContainer
        /\ events' = events + 1
        /\ \/ lastOp' = "handleWheel"
           \/ (lastOp' = "handleGlobalMouseMove" /\ isPanning) )
      => viewBox' = viewBox ]_vars

\* C9: at most one animation-frame callback is pending, and a pending
\* callback is the one animationRef holds and belongs to the tween started
\* last: frame callbacks run only from rafQueue, so once a tween is started
\* no callback of an earlier tween writes the viewport.
C9_SingleTween ==
  /\ Cardinality(rafQueue) <= 1
  /\ \A cb \in rafQueue : cb.tween = tweenSeq /\ cb.handle = animationRef

\* a tween was started while the rescheduled frame of an earlier tween was
\* pending, and the new tween's callback is pending now
C9_Witness ==
  /\ \E c \in cancelled : c[2] = "tween"
  /\ nextHandle >= 4
  /\ rafQueue # {}

\* C10: handleMouseDown with the left or middle button leaves animationRef
\* null and no animation-frame callback pending, and no callback of a tween
\* that a pan cancelled is ever pending again.
C10_PanCancelsTween ==
  /\ [][ (\E b \in {0, 1}, p \in DownPoints : handleMouseDown(b, p))
         => (animationRef' = 0 /\ rafQueue' = {}) ]_vars
  /\ [](\A cb \in rafQueue : <<cb.tween, "pan">> \notin cancelled)

\* a pan has just started and cancelled a tween that had run a frame
C10_Witness ==
  /\ lastOp = "handleMouseDown"
  /\ isPanning
  /\ \E c \in cancelled : c[2] = "pan"
  /\ viewBox # initialViewBox
  /\ animationRef = 0
  /\ rafQueue = {}

FiniteBox(b) ==
  IsFinite(b.x) /\ IsFinite(b.y) /\ IsFinite(b.width) /\ IsFinite(b.height)

\* the factor of a wheel zoom: 1/1.05 for zoom in, 1.05 for zoom out
WheelFactor(e) == IF e.deltaY < 0 THEN Rat(100, 105) ELSE Rat(105, 100)

\* C11: a wheel-zoom event with the pointer at fractional position (px, py)
\* of a container of non-zero size keeps the layout point under the pointer,
\* x + px*width = x' + px*width' and y + py*height = y' + py*height', and
\* scales the size, width' = width*f and height' = height*f, f being 1.05
\* for zoom out and 1/1.05 for zoom in.
C11_WheelZoomAnchored ==
  [][ \A e \in WheelEvents :
        ( /\ e.ctrlKey /\ ~e.shiftKey
          /\ ~ZeroContainer
          /\ FiniteBox(viewBox)
          /\ lastOp' = "handleWheel"
          /\ events' = events + 1
          /\ handleWheel(e) )
        => LET px == RDiv(Fin(e.clientX), Fin(containerSize[1]))
               py == RDiv(Fin(e.clientY), Fin(containerSize[2]))
               f == WheelFactor(e)
           IN /\ RAdd(viewBox.x, RMul(px, viewBox.width))
                   = RAdd(viewBox'.x, RMul(px, viewBox'.width))
              /\ RAdd(viewBox.y, RMul(py, viewBox.height))
                   = RAdd(viewBox'.y, RMul(py, viewBox'.height))
              /\ viewBox'.width = RMul(viewBox.width, f)
              /\ viewBox'.height = RMul(viewBox.height, f) ]_vars

(***************************************************************************)
(* Properties of search and framing (checked under SpecFraming).           *)
(***************************************************************************)
\* a <= b; false when either is NaN
RLe(a, b) == (a = b /\ a.k # "nan") \/ RLt(a, b)

\* the box of node n, NODE_WIDTH wide and n.height high, lies inside window b
NodeInside(n, b) ==
  /\ RLe(b.x, Fin(n.x))
  /\ RLe(Fin(n.x + NODE_WIDTH), RAdd(b.x, b.width))
  /\ RLe(b.y, Fin(n.y))
  /\ RLe(Fin(n.y + n.height), RAdd(b.y, b.height))

\* C12: after a search-framing tween for a query with at least one match
\* has run to completion, the box of every matching node, taken with the
\* node's own height, lies inside the resulting viewport.
C12_SearchContainment ==
  [][ \A cb \in rafQueue, k \in 1..2 :
        ( /\ AnimationFrame(cb, k * FrameStep)
          /\ animationRef' = 0
          /\ Len(highlightedNodes) > 0
          /\ cb.target = SearchTarget(highlightedNodes) )
        => \A i \in 1..Len(highlightedNodes) :
              NodeInside(highlightedNodes[i], viewBox') ]_vars

IdsOf(nodes) == [i \in 1..Len(nodes) |-> nodes[i].id]

\* C13: the match list the application computes on the unpositioned tree
\* and the match list the component computes on the positioned nodes hold
\* the same node ids in the same (pre-order) order, for every tree,
\* collapsed set and query.
C13_MatchSetsAgree == IdsOf(searchResults) = IdsOf(highlightedNodes)

\* no node of the source tree contains the trimmed, lower-cased query
MatchesNoNode(query) ==
  \A n \in Range(flattenNodes(data)) :
     /\ ~includes(toLowerCase(n.topic), toLowerCase(trim(query)))
     /\ ~includes(toLowerCase(n.content), toLowerCase(trim(query)))

\* the step starts no tween and leaves the pending frame callbacks alone
NoTweenStarted ==
  /\ tweenSeq' = tweenSeq
  /\ rafQueue' = rafQueue
  /\ animationRef' = animationRef

\* C14: when the search query changes to a non-empty query that matches no
\* node, the match set is empty, no tween is started and the viewport is
\* the same after handling the change as before it.
C14_NoMatchLeavesViewport ==
  [][ ( /\ lastOp' = "searchChange"
        /\ events' = events + 1
        /\ trim(searchQuery') # <<>>
        /\ MatchesNoNode(searchQuery') )
      => ( /\ highlightedNodes' = <<>>
           /\ NoTweenStarted
           /\ viewBox' = viewBox ) ]_vars

\* the query has just changed to one without a match while a tween was in
\* flight and the viewport had moved
C14_Witness ==
  /\ lastOp = "searchChange"
  /\ searchQuery = <<"z">>
  /\ rafQueue # {}
  /\ viewBox # initialViewBox

\* C15: when the search query becomes empty or only whitespace,
\* selectedNodeId is set to null, no tween is started and the viewport is
\* left exactly as it was.
C15_EmptyQueryClearsSelection ==
  [][ ( /\ lastOp' = "searchChange"
        /\ events' = events + 1
        /\ trim(searchQuery') = <<>> )
      => ( /\ selectedNodeId' = NoSelection
           /\ NoTweenStarted
           /\ viewBox' = viewBox ) ]_vars

\* the query has just changed to a blank one, after a node was focused and
\* the viewport had moved
C15_Witness ==
  /\ lastOp = "searchChange"
  /\ searchQuery = <<" ">>
  /\ selectedNodeId = NoSelection
  /\ viewBox # initialViewBox
  /\ \E cb \in rafQueue :
        /\ cb.target.width = Fin(containerSize[1])
        /\ cb.target.height = Fin(containerSize[2])

\* the tween that was started last, while its callback is pending
PendingTween(queue, handle) == CHOOSE cb \in queue : cb.handle = handle

\* the padding of fitToScreen on every side
FitPadding == 100

\* C17: the target window of fitToScreen encloses the bounding box of all
\* node boxes, each [x, x + NODE_WIDTH] by [y, y + node.height] with the
\* node's own height, expanded by the padding on every side, and its width
\* and height are containerWidth*scale and containerHeight*scale with
\* scale = max(requiredScaleX, requiredScaleY, 0.6).
C17_FitEnclosesNodeBoxes ==
  [][ ( /\ lastOp' = "fitToScreen"
        /\ events' = events + 1
        /\ FitButton )
      => LET target == PendingTween(rafQueue', animationRef').target
             W == Fin(containerSize[1])
             H == Fin(containerSize[2])
             minX == MinOf({ n.x : n \in NodeSet }) - FitPadding
             maxX == MaxOf({ n.x : n \in NodeSet }) + NODE_WIDTH + FitPadding
             minY == MinOf({ n.y : n \in NodeSet }) - FitPadding
             maxY == MaxOf({ n.y + n.height : n \in NodeSet }) + FitPadding
             scale == RMax(RMax(RDiv(Fin(maxX - minX), W),
                                RDiv(Fin(maxY - minY), H)), Rat(3, 5))
         IN /\ RLe(target.x, Fin(minX))
            /\ RLe(Fin(maxX), RAdd(target.x, target.width))
            /\ RLe(target.y, Fin(minY))
            /\ RLe(Fin(maxY), RAdd(target.y, target.height))
            /\ target.width = RMul(W, scale)
            /\ target.height = RMul(H, scale) ]_vars

(***************************************************************************)
(* Properties of wheel, focus and selection (checked under Spec).          *)
(***************************************************************************)
\* the step is handleWheel(e)
WheelStep(e) ==
  /\ lastOp' = "handleWheel"
  /\ events' = events + 1
  /\ handleWheel(e)

\* the viewport is translated by (deltaX, deltaY) pixels converted to layout
\* units with the size w by h, and keeps its size
PannedBy(e, w, h) ==
  /\ viewBox'.width = viewBox.width
  /\ viewBox'.height = viewBox.height
  /\ viewBox'.x = RAdd(viewBox.x, RMul(Fin(e.deltaX),
                                       RDiv(w, Fin(containerSize[1]))))
  /\ viewBox'.y = RAdd(viewBox.y, RMul(Fin(e.deltaY),
                                       RDiv(h, Fin(containerSize[2]))))

C18_FocusCentersNode ==
  [][ \A i \in 1..Len(allNodes) :
        ( /\ lastOp' = "focusNode"
          /\ events' = events + 1
          /\ focusNode(allNodes[i]) )
        => LET n == allNodes[i]
               target == PendingTween(rafQueue', animationRef').target
               W == Fin(containerSize[1])
               H == Fin(containerSize[2])
           IN /\ target.width = W
              /\ target.height = H
              /\ RAdd(target.x, RDiv(W, Fin(2)))
                   = RAdd(Fin(n.x), Rat(NODE_WIDTH, 2))
              /\ RAdd(target.y, RDiv(H, Fin(2)))
                   = RAdd(Fin(n.y), Rat(n.height, 2))
              /\ selectedNodeId' = n.id ]_vars

RECURSIVE HasChildrenEverywhere(_)
HasChildrenEverywhere(node) ==
  /\ "children" \in DOMAIN node
  /\ \A i \in 1..Len(node.children) : HasChildrenEverywhere(node.children[i])

\* out is raw with an empty children array added where raw had none, and
\* with the children raw had, in the same order
RECURSIVE NormalizedFrom(_, _)
NormalizedFrom(raw, out) ==
  /\ out.id = raw.id /\ out.topic = raw.topic /\ out.content = raw.content
  /\ "children" \in DOMAIN out
  /\ IF "children" \in DOMAIN raw
       THEN /\ Len(out.children) = Len(raw.children)
            /\ \A i \in 1..Len(raw.children) :
                  NormalizedFrom(raw.children[i], out.children[i])
       ELSE out.children = <<>>

\* C21: normalizeMindMapData ends on every parsed tree, and afterwards
\* every node, the root and the deepest nodes included, has a children
\* array, an empty one where it was absent, while the nodes that had
\* children keep them; the layout is computed from that tree and every
\* positioned node has a children array too.
C21_NormalizeFillsChildren ==
  lastOp # "parsed" =>
    /\ HasChildrenEverywhere(data)
    /\ NormalizedFrom(parsedData, data)
    /\ HasChildrenEverywhere(positionedData)
    /\ IdsOf(flattenNodes(PositionedData(data, {})))
         = IdsOf(flattenNodes(data))

\* a tree was normalized whose root has children of which one, at the
\* deepest level, lacked the field, and one had an empty array
C21_Witness ==
  /\ lastOp # "parsed"
  /\ ~HasChildrenEverywhere(parsedData)
  /\ Len(data.children) >= 2
  /\ \E i, j \in 1..Len(data.children) :
        /\ "children" \notin DOMAIN parsedData.children[i]
        /\ "children" \in DOMAIN parsedData.children[j]
        /\ parsedData.children[j].children # <<>>

(***************************************************************************)
(* Properties of the tween's end.                                          *)
(***************************************************************************)
\* a === b for numbers: NaN is equal to nothing
REq(a, b) == a.k # "nan" /\ b.k # "nan" /\ a = b

BoxEq(a, b) ==
  /\ REq(a.x, b.x) /\ REq(a.y, b.y)
  /\ REq(a.width, b.width) /\ REq(a.height, b.height)

\* C23: a tween that is not cancelled terminates at its target: the frame
\* that runs once the duration has elapsed (time advances by at least
\* FrameStep per frame, so it is the second frame at the latest) leaves the
\* viewport equal to the target exactly in x, y, width and height,
\* animationRef null and no further frame scheduled.
C23_TweenReachesTarget ==
  [][ \A cb \in rafQueue, k \in 1..2 :
        ( /\ AnimationFrame(cb, k * FrameStep)
          /\ now' - cb.startTime >= duration )
        => ( /\ BoxEq(viewBox', cb.target)
             /\ animationRef' = 0
             /\ rafQueue' = {} ) ]_vars

(***************************************************************************)
(* Properties of the pan gesture.                                          *)
(***************************************************************************)
\* the step is the mouse-move handler run for a pointer at p
MouseMoveStep(p) ==
  /\ lastOp' = "handleGlobalMouseMove"
  /\ events' = events + 1
  /\ handleGlobalMouseMove(p)

\* C24: a mouse-move changes the viewport only while a pan gesture is active:
\* then x' = x - dxPixels * width / containerWidth and
\* y' = y - dyPixels * height / containerHeight, width and height unchanged
\* (width and height being the viewport's); outside a gesture the viewport
\* is unchanged; only a left or middle mouse-down starts a gesture, and
\* after mouse-up isPanning is false.
C24_MouseMovePansWhilePanning ==
  /\ [][ \A p \in MousePoints :
          MouseMoveStep(p) =>
            IF isPanning
              THEN viewBox' =
                     [viewBox EXCEPT
                        !.x = RSub(@, RMul(Fin(p[1] - startPoint[1]),
                                           RDiv(viewBox.width,
                                                Fin(containerSize[1])))),
                        !.y = RSub(@, RMul(Fin(p[2] - startPoint[2]),
                                           RDiv(viewBox.height,
                                                Fin(containerSize[2]))))]
              ELSE viewBox' = viewBox ]_vars
  /\ [][ lastOp' = "handleGlobalMouseUp" => ~isPanning' ]_vars
  /\ [][ (~isPanning /\ isPanning') => lastOp' = "handleMouseDown" ]_vars

(***************************************************************************)
(* Properties of the connectors (checked under SpecLayout).                *)
(***************************************************************************)
\* the coordinate pairs of a path, in order
RECURSIVE PathPoints(_)
PathPoints(path) ==
  IF Len(path) = 0 THEN <<>> ELSE Head(path).pts \o PathPoints(Tail(path))

\* the path has straight segments only
IsPolyline(path) == \A i \in 1..Len(path) : path[i].op \in {"M", "L"}

\* C25: every connector starts at the parent's right-edge vertical centre,
\* ends at the child's left-edge vertical centre, every point in between
\* lies on the vertical line through the horizontal midpoint of the two or
\* on one of the horizontal lines through the start and the end, and the
\* sharp-cornered polyline is used exactly when the horizontal half-run or
\* the vertical run is smaller than the radius 12.
C25_ConnectorIsElbow ==
  \A c \in Connectors :
    LET pts == PathPoints(c.path)
        sx == c.from.x + NODE_WIDTH
        sy2 == 2 * c.from.y + c.from.height
        ex == c.to.x
        ey2 == 2 * c.to.y + c.to.height
    IN /\ c.path[1].op = "M"
       /\ 2 * pts[1][2] = sy2 /\ pts[1][1] = sx
       /\ 2 * pts[Len(pts)][2] = ey2 /\ pts[Len(pts)][1] = ex
       /\ \A i \in 2..(Len(pts) - 1) :
             \/ 2 * pts[i][1] = sx + ex
             \/ 2 * pts[i][2] = sy2
             \/ 2 * pts[i][2] = ey2
       /\ IsPolyline(c.path) <=>
             (Abs(ex - sx) < 2 * radius \/ Abs(ey2 - sy2) < 2 * radius)

\* a state that shows a sharp-cornered connector and a rounded one
C25_Witness ==
  /\ \E c \in Connectors : IsPolyline(c.path)
  /\ \E c \in Connectors : ~IsPolyline(c.path)

\* C29: whenever the rounded path is used the two corner arcs do not
\* overlap: the vertical segment from startY + radius*dirY to
\* endY - radius*dirY runs in direction dirY or has zero length, that is
\* |endY - startY| >= 2 * radius.
C29_CornerArcsDisjoint ==
  \A c \in Connectors :
    ~IsPolyline(c.path) =>
      LET startY == c.path[1].pts[1][2]
          endY == c.path[6].pts[1][2]
          dirY == IF endY > startY THEN 1 ELSE -1
          segFrom == c.path[3].pts[2][2]
          segTo == c.path[4].pts[1][2]
      IN /\ (segTo - segFrom) * dirY >= 0
         /\ Abs(endY - startY) >= 2 * radius

(***************************************************************************)
(* Node boxes (checked under SpecLayout).                                  *)
(***************************************************************************)
\* the parent's id of a node that is not the root
ParentId(n) == SubSeq(n.id, 1, Len(n.id) - 1)

\* C26: no two distinct node boxes of the positioned tree overlap: two
\* distinct visible nodes at the same depth have the same x and vertical
\* extents [y, y + height] that are disjoint and at least VERTICAL_SPACING
\* apart, cousins under different parents included; nodes at different
\* depths have disjoint horizontal extents.
C26_NodeBoxesApart ==
  \A a, b \in NodeSet :
    a.id # b.id =>
      IF a.depth = b.depth
        THEN /\ a.x = b.x
             /\ \/ a.y + a.height + VERTICAL_SPACING <= b.y
                \/ b.y + b.height + VERTICAL_SPACING <= a.y
        ELSE \/ a.x + NODE_WIDTH <= b.x
             \/ b.x + NODE_WIDTH <= a.x

\* two visible cousins under different parents, the boxes exactly
\* VERTICAL_SPACING apart
C26_Witness ==
  \E a, b \in NodeSet :
    /\ a.depth = 2 /\ b.depth = 2
    /\ ParentId(a) # ParentId(b)
    /\ a.y + a.height + VERTICAL_SPACING = b.y

(***************************************************************************)
(* Pan gesture against tweens and toggles (checked under Spec).            *)
(***************************************************************************)
\* C27: a pan gesture and a tween are never active together: in no
\* reachable state is isPanning true while an animation-frame callback is
\* pending, also when a search change, a collapse toggle or the delayed
\* fit-to-screen timer fires while the pointer is held down.
C27_NoTweenWhilePanning == ~(isPanning /\ rafQueue # {})

\* C28: toggling a node's collapse state changes only the collapsed set
\* and the derived layout: for any search query, after
\* toggleNodeCollapse(id) and the effects it triggers the viewport is
\* unchanged, no tween has been started and selectedNodeId is unchanged.
C28_ToggleKeepsViewAndSelection ==
  [][ \A i \in 1..Len(allNodes) :
        ( /\ lastOp' = "toggleNodeCollapse"
          /\ events' = events + 1
          /\ toggleNodeCollapse(allNodes[i].id) )
        => ( /\ viewBox' = viewBox
             /\ tweenSeq' = tweenSeq
             /\ rafQueue' = rafQueue
             /\ animationRef' = animationRef
             /\ selectedNodeId' = selectedNodeId ) ]_vars

(***************************************************************************)
(* Composition of wheel zooms (checked under Spec).                        *)
(***************************************************************************)
\* the viewport after a wheel zoom e of the viewport box, the component
\* having rendered box: size scaled by the factor, the layout point under
\* the pointer kept
AnchoredZoom(box, e) ==
  LET px == RDiv(Fin(e.clientX), Fin(containerSize[1]))
      py == RDiv(Fin(e.clientY), Fin(containerSize[2]))
      f == WheelFactor(e)
  IN Box(RAdd(box.x, RMul(px, RSub(box.width, RMul(box.width, f)))),
         RAdd(box.y, RMul(py, RSub(box.height, RMul(box.height, f)))),
         RMul(box.width, f), RMul(box.height, f))

\* C30: wheel zooms compose independently of rendering: a second wheel-zoom
\* event at the same pointer position, handled before the component has
\* re-rendered after the first, leaves the viewport as two zooms with a
\* render after each do: width and height of the last rendered viewport
\* scaled by f^2 and the layout point under the pointer unchanged.
C30_WheelZoomsCompose ==
  [][ \A e \in WheelEvents :
        ( /\ isZoom(e) /\ ~e.shiftKey
          /\ ~ZeroContainer
          /\ FiniteBox(viewBoxRendered)
          /\ lastOp = "handleWheel"
          /\ viewBox # viewBoxRendered
          /\ viewBox = AnchoredZoom(viewBoxRendered, e)
          /\ lastOp' = "handleWheel"
          /\ events' = events + 1
          /\ handleWheel(e) )
        => LET px == RDiv(Fin(e.clientX), Fin(containerSize[1]))
               py == RDiv(Fin(e.clientY), Fin(containerSize[2]))
               f == WheelFactor(e)
               old == viewBoxRendered
           IN /\ viewBox'.width = RMul(RMul(old.width, f), f)
              /\ viewBox'.height = RMul(RMul(old.height, f), f)
              /\ RAdd(viewBox'.x, RMul(px, viewBox'.width))
                   = RAdd(old.x, RMul(px, old.width))
              /\ RAdd(viewBox'.y, RMul(py, viewBox'.height))
                   = RAdd(old.y, RMul(py, old.height))
              /\ viewBox' = AnchoredZoom(AnchoredZoom(old, e), e) ]_vars

====
